---- MODULE Spec2Model ----
(***************************************************************************)
(* A model of admin_util.py: content_type, the local clear_dir and the     *)
(* Bucket class (upload_file, clear_dir, upload_dir, move_files).          *)
(*                                                                         *)
(* Strings (paths, keys, prefixes, file names) are sequences of one-       *)
(* character strings, so that strip, basename, splitext, startswith and    *)
(* the key order of a listing are computed as the code computes them.      *)
(***************************************************************************)
EXTENDS Integers, Sequences, FiniteSets, TLC

VARIABLES
    bucket,       \* the S3 bucket: key -> [body, ctype]
    localfs,      \* the local file system: path -> [kind, data]
    pc,           \* position of the running call
    call,         \* the running call: [op, src, dest, clear]
    listing,      \* the keys objects.filter(Prefix=...) returned, in order
    idx,          \* position of the loop in listing (next to process)
    pending,      \* glob results not yet iterated
    log,          \* the lines printed by the call, in order
    ops,          \* the mutating requests issued by the call, in order
    err,          \* the exception that ended the call, "none" otherwise
    startBucket,  \* the bucket when the call began
    listBucket,   \* the bucket when the loop's listing was taken
    startLocal,   \* the local file system when the call began
    prev,         \* the previous completed call (a session of several calls)
    file_name,    \* content_type's argument
    ctResult      \* content_type's return value, "unset" before the call

vars == <<bucket, localfs, pc, call, listing, idx, pending, log, ops, err,
          startBucket, listBucket, startLocal, prev, file_name, ctResult>>

---------------------------------------------------------------------------
(* Bounds of the model.                                                    *)

MaxObjs == 3

MaxLocal == 3

MaxNameParts == 3

---------------------------------------------------------------------------
(* Python's str operations.                                                *)

Min(a, b) == IF a < b THEN a ELSE b

\* s.startswith(p); also S3's Prefix filter
StartsWith(s, p) ==
    /\ Len(p) <= Len(s)
    /\ SubSeq(s, 1, Len(p)) = p

\* s.rfind(c), 1-based, 0 when absent
RFind(s, c) ==
    LET hits == {i \in 1..Len(s) : s[i] = c}
    IN  IF hits = {} THEN 0 ELSE CHOOSE i \in hits : \A j \in hits : j <= i

strip_left_only(s, c) ==
    LET keep == {i \in 1..Len(s) : s[i] # c}
    IN  IF keep = {} THEN <<>>
        ELSE SubSeq(s, CHOOSE i \in keep : \A j \in keep : i <= j, Len(s))

\* s.strip(c): every leading and every trailing c removed
strip(s, c) ==
    LET keep == {i \in 1..Len(s) : s[i] # c}
    IN  IF keep = {} THEN <<>>
        ELSE SubSeq(s, CHOOSE i \in keep : \A j \in keep : i <= j,
                       CHOOSE i \in keep : \A j \in keep : j <= i)

\* os.path.basename(p): what follows the last '/'
basename(p) == SubSeq(p, RFind(p, "/") + 1, Len(p))

\* os.path.join(a, b)
path_join(a, b) ==
    IF Len(b) > 0 /\ b[1] = "/" THEN b
    ELSE IF a = <<>> \/ a[Len(a)] = "/" THEN a \o b
    ELSE a \o <<"/">> \o b

splitext_ext_noskip(p) ==
    LET sepIndex == RFind(p, "/")
        dotIndex == RFind(p, ".")
    IN  IF dotIndex > sepIndex THEN SubSeq(p, dotIndex, Len(p)) ELSE <<>>

\* os.path.splitext(p)[-1]: the extension with its dot; the dots that begin
\* the last segment are skipped, so ".bashrc" has no extension
splitext_ext(p) ==
    LET sepIndex == RFind(p, "/")
        dotIndex == RFind(p, ".")
    IN  IF /\ dotIndex > sepIndex
           /\ \E i \in (sepIndex + 1)..(dotIndex - 1) : p[i] # "."
        THEN SubSeq(p, dotIndex, Len(p))
        ELSE <<>>

---------------------------------------------------------------------------
(* content_type                                                            *)

content_type_map ==
    (<<"h", "t", "m", "l">> :> "text/html") @@
    (<<"c", "s", "v">> :> "text/csv") @@
    (<<"t", "x", "t">> :> "text/plain") @@
    (<<"x", "l", "s", "x">> :>
        "application/vnd.openxmlformats-officedocument.spreadsheetml.sheet") @@
    (<<"p", "k", "l">> :> "application/octet-stream")

content_type(fn) ==
    LET ext == strip(splitext_ext(fn), ".")
    IN  IF ext \in DOMAIN content_type_map
        THEN content_type_map[ext]
        ELSE "application/octet-stream"

---------------------------------------------------------------------------
(* The S3 bucket behind boto3: put_object, copy_from, delete, and           *)
(* objects.filter(Prefix=...), which returns the keys that begin with the   *)
(* prefix in ascending byte order of the key.                               *)

Alphabet ==
    <<".", "/", "a", "b", "c", "d", "g", "k", "n", "r", "s", "t", "v", "x">>

Ord(c) == CHOOSE i \in 1..Len(Alphabet) : Alphabet[i] = c

KeyLess(a, b) ==
    \E i \in 1..(Min(Len(a), Len(b)) + 1) :
        /\ SubSeq(a, 1, i - 1) = SubSeq(b, 1, i - 1)
        /\ \/ i > Len(a) /\ i <= Len(b)
           \/ i <= Len(a) /\ i <= Len(b) /\ Ord(a[i]) < Ord(b[i])

RECURSIVE SortKeys(_)
SortKeys(S) ==
    IF S = {} THEN <<>>
    ELSE LET m == CHOOSE x \in S : \A y \in S \ {x} : KeyLess(x, y)
         IN  <<m>> \o SortKeys(S \ {m})

\* self.bucket.objects.filter(Prefix = prefix)
list_objects(b, prefix) == SortKeys({k \in DOMAIN b : StartsWith(k, prefix)})

put_object(b, key, data, cnt_typ) ==
    [k \in DOMAIN b \cup {key} |->
        IF k = key THEN [body |-> data, ctype |-> cnt_typ] ELSE b[k]]

copy_object_lost(b, src, dst) == b

\* Object(dst).copy_from(CopySource = src): body and content type are copied
copy_object(b, src, dst) ==
    [k \in DOMAIN b \cup {dst} |-> IF k = dst THEN b[src] ELSE b[k]]

delete_object_keep(b, key) == b

\* obj.delete()
delete_object(b, key) == [k \in DOMAIN b \ {key} |-> b[k]]

dest_key_full(dest_dir, name) == dest_dir \o <<"/">> \o name

\* f'{dest_dir}/{base_name}', base_name the basename of the path or key
dest_key(dest_dir, name) == dest_dir \o <<"/">> \o basename(name)

glob_star_all(fs, dir_path) ==
    LET pre == path_join(dir_path, <<>>)
    IN  {p \in DOMAIN fs :
            /\ StartsWith(p, pre)
            /\ Len(p) > Len(pre)
            /\ \A i \in (Len(pre) + 1)..Len(p) : p[i] # "/"}

\* glob(os.path.join(dir_path, '*')): the entries directly in dir_path whose
\* name does not begin with a dot, files and directories alike
glob_star(fs, dir_path) ==
    LET pre == path_join(dir_path, <<>>)
    IN  {p \in DOMAIN fs :
            /\ StartsWith(p, pre)
            /\ Len(p) > Len(pre)
            /\ p[Len(pre) + 1] # "."
            /\ \A i \in (Len(pre) + 1)..Len(p) : p[i] # "/"}

\* the test of move_files' loop that skips the directory's own marker
is_src_marker(key, src_dir) == strip(key, "/") = src_dir

---------------------------------------------------------------------------
(* Initial states and the arguments of the calls.                          *)

InitKeys ==
    { <<"a", "/">>, <<"a", "/", "x">>, <<"a", "/", "b", "/", "b", "x">>,
      <<"a", "/", "s", "/", "x">>, <<"a", "b", "/", "x">>,
      <<"b", "/", "x">>, <<"a", "/", "b", "/", "x">>,
      <<"a", "/", "a", "/", "x">>, <<"a">>, <<"a", "/", "b", "x">> }

InitBuckets ==
    { [k \in S |-> [body |-> k, ctype |-> "binary/octet-stream"]] :
        S \in {T \in SUBSET InitKeys : Cardinality(T) <= MaxObjs} }

\* directory prefixes as callers write them, with and without slashes
ArgPrefixes ==
    { <<"a">>, <<"a", "/">>, <<"/", "b", "/">>, <<"a", "b">>, <<"a", "/", "b">> }

LocalFiles == { <<"d", "/", "r", ".", "c", "s", "v">>, <<"d", "/", "n">>,
                <<"d", "/", ".", "g">> }

LocalSubdir == <<"d", "/", "s">>

LocalNested == <<"d", "/", "s", "/", "t", ".", "t", "x", "t">>

LocalOf(S) ==
    LET dirs  == {<<"d">>} \cup (S \cap {LocalSubdir})
        files == (S \cap LocalFiles) \cup
                 (IF LocalSubdir \in S THEN {LocalNested} ELSE {})
    IN  [p \in dirs \cup files |->
            [kind |-> IF p \in dirs THEN "dir" ELSE "file", data |-> p]]

InitLocals ==
    { LocalOf(S) : S \in {T \in SUBSET (LocalFiles \cup {LocalSubdir}) :
                            Cardinality(T) <= MaxLocal} }

DefaultLocal == LocalOf({<<"d", "/", "r", ".", "c", "s", "v">>})

ArgLocalDirs == { <<"d">>, <<"d", "/">> }

ArgUploadPaths == { <<"d", "/", "r", ".", "c", "s", "v">>, <<"d", "/", "s">>,
                    <<"d", "/", "k">> }

ArgUploadKeys == { <<"a", "/", "x">>, <<"k">> }

NameParts ==
    { <<".">>, <<"/">>, <<"a">>, <<"c", "s", "v">>, <<"C", "S", "V">>,
      <<"t", "x", "t">>, <<"h", "t", "m", "l">>, <<"x", "l", "s", "x">>,
      <<"p", "k", "l">> }

RECURSIVE NamesOf(_)
NamesOf(n) ==
    IF n = 0 THEN {<<>>}
    ELSE LET shorter == NamesOf(n - 1)
         IN  shorter \cup {s \o p : s \in shorter, p \in NameParts}

FileNames == NamesOf(MaxNameParts)

NoCall == [op |-> "none", src |-> <<>>, dest |-> <<>>, clear |-> FALSE]

NoPrev == [op |-> "none", src |-> <<>>, dest |-> <<>>, clear |-> FALSE,
           pc |-> "none", nops |-> 0]

InitCall ==
    /\ pc = "idle"
    /\ call = NoCall
    /\ listing = <<>>
    /\ idx = 1
    /\ pending = {}
    /\ log = <<>>
    /\ ops = <<>>
    /\ err = "none"
    /\ startBucket = bucket
    /\ listBucket = bucket
    /\ startLocal = localfs
    /\ prev = NoPrev

Init ==
    /\ bucket \in InitBuckets
    /\ localfs \in InitLocals
    /\ Cardinality(DOMAIN bucket) <= 1 \/ localfs = DefaultLocal
    /\ InitCall
    /\ file_name = <<>>
    /\ ctResult = "unset"

---------------------------------------------------------------------------
(* Bookkeeping shared by the calls.                                        *)

BeginCall(c) ==
    /\ pc = "idle"
    /\ call' = c
    /\ log' = <<>>
    /\ ops' = <<>>
    /\ err' = "none"
    /\ startBucket' = bucket
    /\ startLocal' = localfs
    /\ UNCHANGED <<bucket, localfs, prev, file_name, ctResult>>

Request(kind, by, key, src, ok) ==
    [kind |-> kind, by |-> by, key |-> key, src |-> src, ok |-> ok]

\* the loop of Bucket.clear_dir is entered with the listing of the prefix
EnterClear(prefix) ==
    /\ pc' = "clearing"
    /\ listing' = list_objects(bucket, prefix)
    /\ idx' = 1
    /\ listBucket' = bucket
    /\ pending' = {}

\* the loop of move_files is entered with the listing of the source prefix
EnterMove(prefix) ==
    /\ pc' = "moving"
    /\ listing' = list_objects(bucket, prefix)
    /\ idx' = 1
    /\ listBucket' = bucket
    /\ pending' = {}

\* the loop of upload_dir is entered with the glob of the local directory
EnterUpload(src_dir_local) ==
    /\ pc' = "uploading"
    /\ pending' = glob_star(localfs, src_dir_local)
    /\ UNCHANGED <<listing, idx, listBucket>>

---------------------------------------------------------------------------
(* Bucket.upload_file                                                      *)

do_upload_file_skipdir(file_path, dest, okpc) ==
    LET cnt_typ == content_type(file_path)
    IN  IF file_path \notin DOMAIN localfs
        THEN /\ pc' = "failed"
             /\ err' = "FileNotFoundError"
             /\ UNCHANGED <<bucket, log, ops>>
        ELSE IF localfs[file_path].kind = "dir"
        THEN /\ pc' = okpc
             /\ err' = err
             /\ UNCHANGED <<bucket, log, ops>>
        ELSE \E ok \in BOOLEAN :
             /\ ops' = Append(ops, [kind |-> "put", by |-> "upload_file",
                                    key |-> dest, src |-> file_path,
                                    ok |-> ok])
             /\ IF ok
                THEN /\ bucket' = put_object(bucket, dest,
                                             localfs[file_path].data, cnt_typ)
                     /\ log' = Append(log, <<"uploaded", file_path, cnt_typ>>)
                     /\ pc' = okpc
                     /\ err' = err
                ELSE /\ bucket' = bucket
                     /\ log' = log
                     /\ pc' = "failed"
                     /\ err' = "ClientError"

\* the body of upload_file; okpc is where the caller continues
do_upload_file(file_path, dest, okpc) ==
    LET cnt_typ == content_type(file_path)
    IN  IF file_path \notin DOMAIN localfs
        THEN /\ pc' = "failed"
             /\ err' = "FileNotFoundError"
             /\ UNCHANGED <<bucket, log, ops>>
        ELSE IF localfs[file_path].kind = "dir"
        THEN /\ pc' = "failed"
             /\ err' = "IsADirectoryError"
             /\ UNCHANGED <<bucket, log, ops>>
        ELSE \E ok \in BOOLEAN :
             /\ ops' = Append(ops, Request("put", "upload_file", dest,
                                           file_path, ok))
             /\ IF ok
                THEN /\ bucket' = put_object(bucket, dest,
                                             localfs[file_path].data, cnt_typ)
                     /\ log' = Append(log, <<"uploaded", file_path, cnt_typ>>)
                     /\ pc' = okpc
                     /\ err' = err
                ELSE /\ bucket' = bucket
                     /\ log' = log
                     /\ pc' = "failed"
                     /\ err' = "ClientError"

upload_file(file_path, dest) ==
    /\ pc = "idle"
    /\ call' = [op |-> "upload_file", src |-> file_path, dest |-> dest,
                clear |-> FALSE]
    /\ startBucket' = bucket
    /\ startLocal' = localfs
    /\ do_upload_file(file_path, dest, "done")
    /\ UNCHANGED <<localfs, listing, idx, pending, listBucket, prev,
                   file_name, ctResult>>

---------------------------------------------------------------------------
(* Bucket.clear_dir                                                        *)

Bucket_clear_dir(dir_to_clear) ==
    /\ BeginCall([op |-> "clear_dir", src |-> <<>>, dest |-> dir_to_clear,
                  clear |-> TRUE])
    /\ EnterClear(strip(dir_to_clear, "/"))

clear_dir_step_print_after ==
    /\ pc = "clearing"
    /\ idx <= Len(listing)
    /\ \E ok \in BOOLEAN :
        /\ ops' = Append(ops, [kind |-> "delete", by |-> "clear_dir",
                               key |-> listing[idx], src |-> listing[idx],
                               ok |-> ok])
        /\ IF ok
           THEN /\ bucket' = delete_object(bucket, listing[idx])
                /\ log' = Append(log, <<"deleting", listing[idx]>>)
                /\ idx' = idx + 1
                /\ pc' = pc
                /\ err' = err
           ELSE /\ bucket' = bucket
                /\ log' = log
                /\ idx' = idx
                /\ pc' = "failed"
                /\ err' = "ClientError"
    /\ UNCHANGED <<localfs, call, listing, pending, startBucket, listBucket,
                   startLocal, prev, file_name, ctResult>>

\* one iteration of the loop: print, then obj.delete()
clear_dir_step ==
    /\ pc = "clearing"
    /\ idx <= Len(listing)
    /\ log' = Append(log, <<"deleting", listing[idx]>>)
    /\ \E ok \in BOOLEAN :
        /\ ops' = Append(ops, Request("delete", "clear_dir", listing[idx],
                                      listing[idx], ok))
        /\ IF ok
           THEN /\ bucket' = delete_object(bucket, listing[idx])
                /\ idx' = idx + 1
                /\ pc' = pc
                /\ err' = err
           ELSE /\ bucket' = bucket
                /\ idx' = idx
                /\ pc' = "failed"
                /\ err' = "ClientError"
    /\ UNCHANGED <<localfs, call, listing, pending, startBucket, listBucket,
                   startLocal, prev, file_name, ctResult>>

\* the loop is over: clear_dir returns to its caller
clear_dir_return ==
    /\ pc = "clearing"
    /\ idx > Len(listing)
    /\ CASE call.op = "clear_dir" ->
                /\ pc' = "done"
                /\ UNCHANGED <<listing, idx, pending, listBucket>>
         [] call.op = "upload_dir" -> EnterUpload(call.src)
         [] call.op = "move_files" -> EnterMove(strip(call.src, "/"))
    /\ UNCHANGED <<bucket, localfs, call, log, ops, err, startBucket,
                   startLocal, prev, file_name, ctResult>>

---------------------------------------------------------------------------
(* Bucket.upload_dir                                                       *)

upload_dir(src_dir_local, dest_dir, clear_dest_dir) ==
    /\ BeginCall([op |-> "upload_dir", src |-> src_dir_local,
                  dest |-> dest_dir, clear |-> clear_dest_dir])
    /\ IF clear_dest_dir
       THEN EnterClear(strip(dest_dir, "/"))
       ELSE EnterUpload(src_dir_local)

\* one iteration of the loop, in the order glob happens to return
upload_dir_step ==
    /\ pc = "uploading"
    /\ \E fn \in pending :
        /\ pending' = pending \ {fn}
        /\ do_upload_file(fn, dest_key(strip(call.dest, "/"), fn), "uploading")
    /\ UNCHANGED <<localfs, call, listing, idx, startBucket, listBucket,
                   startLocal, prev, file_name, ctResult>>

upload_dir_return ==
    /\ pc = "uploading"
    /\ pending = {}
    /\ pc' = "done"
    /\ UNCHANGED <<bucket, localfs, call, listing, idx, pending, log, ops, err,
                   startBucket, listBucket, startLocal, prev, file_name,
                   ctResult>>

---------------------------------------------------------------------------
(* Bucket.move_files                                                       *)

move_files(src_dir, dest_dir, clear_dest) ==
    /\ BeginCall([op |-> "move_files", src |-> src_dir, dest |-> dest_dir,
                  clear |-> clear_dest])
    /\ IF clear_dest
       THEN EnterClear(strip(dest_dir, "/"))
       ELSE EnterMove(strip(src_dir, "/"))

\* if obj.key.strip('/') == src_dir: continue
move_files_skip ==
    /\ pc = "moving"
    /\ idx <= Len(listing)
    /\ is_src_marker(listing[idx], strip(call.src, "/"))
    /\ idx' = idx + 1
    /\ UNCHANGED <<bucket, localfs, pc, call, listing, pending, log, ops, err,
                   startBucket, listBucket, startLocal, prev, file_name,
                   ctResult>>

\* print, then copy_from
move_files_copy ==
    /\ pc = "moving"
    /\ idx <= Len(listing)
    /\ ~is_src_marker(listing[idx], strip(call.src, "/"))
    /\ log' = Append(log, <<"copying", listing[idx]>>)
    /\ LET dst == dest_key(strip(call.dest, "/"), listing[idx])
       IN  \E ok \in BOOLEAN :
            /\ ops' = Append(ops, Request("copy", "move_files", dst,
                                          listing[idx], ok))
            /\ IF ok
               THEN /\ bucket' = copy_object(bucket, listing[idx], dst)
                    /\ pc' = "move_delete"
                    /\ err' = err
               ELSE /\ bucket' = bucket
                    /\ pc' = "failed"
                    /\ err' = "ClientError"
    /\ UNCHANGED <<localfs, call, listing, idx, pending, startBucket,
                   listBucket, startLocal, prev, file_name, ctResult>>

\* obj.delete() of the original
move_files_delete ==
    /\ pc = "move_delete"
    /\ \E ok \in BOOLEAN :
        /\ ops' = Append(ops, Request("delete", "move_files", listing[idx],
                                      listing[idx], ok))
        /\ IF ok
           THEN /\ bucket' = delete_object(bucket, listing[idx])
                /\ idx' = idx + 1
                /\ pc' = "moving"
                /\ err' = err
           ELSE /\ bucket' = bucket
                /\ idx' = idx
                /\ pc' = "failed"
                /\ err' = "ClientError"
    /\ UNCHANGED <<localfs, call, listing, pending, log, startBucket,
                   listBucket, startLocal, prev, file_name, ctResult>>

move_files_return ==
    /\ pc = "moving"
    /\ idx > Len(listing)
    /\ pc' = "done"
    /\ UNCHANGED <<bucket, localfs, call, listing, idx, pending, log, ops, err,
                   startBucket, listBucket, startLocal, prev, file_name,
                   ctResult>>

---------------------------------------------------------------------------
(* clear_dir, the module's function on a local directory                   *)

clear_dir(dir_path) ==
    /\ BeginCall([op |-> "clear_dir_local", src |-> dir_path, dest |-> <<>>,
                  clear |-> FALSE])
    /\ pc' = "removing"
    /\ pending' = glob_star(localfs, dir_path)
    /\ UNCHANGED <<listing, idx, listBucket>>

\* one iteration: an entry that is no regular file is passed over;
\* a file is printed and then removed
clear_dir_local_step ==
    /\ pc = "removing"
    /\ \E fn \in pending :
        /\ pending' = pending \ {fn}
        /\ IF localfs[fn].kind = "file"
           THEN /\ log' = Append(log, <<"deleting", fn>>)
                /\ \E ok \in BOOLEAN :
                    IF ok
                    THEN /\ localfs' = [q \in DOMAIN localfs \ {fn} |->
                                            localfs[q]]
                         /\ pc' = pc
                         /\ err' = err
                    ELSE /\ localfs' = localfs
                         /\ pc' = "failed"
                         /\ err' = "OSError"
           ELSE UNCHANGED <<localfs, log, pc, err>>
    /\ UNCHANGED <<bucket, call, listing, idx, ops, startBucket, listBucket,
                   startLocal, prev, file_name, ctResult>>

clear_dir_local_return ==
    /\ pc = "removing"
    /\ pending = {}
    /\ pc' = "done"
    /\ UNCHANGED <<bucket, localfs, call, listing, idx, pending, log, ops, err,
                   startBucket, listBucket, startLocal, prev, file_name,
                   ctResult>>

---------------------------------------------------------------------------
(* Specifications.                                                         *)

\* one call of any operation, from any initial bucket and directory
Next ==
    \/ \E f \in ArgUploadPaths, k \in ArgUploadKeys : upload_file(f, k)
    \/ \E d \in ArgPrefixes : Bucket_clear_dir(d)
    \/ clear_dir_step
    \/ clear_dir_return
    \/ \E s \in ArgLocalDirs, d \in ArgPrefixes, c \in BOOLEAN :
            upload_dir(s, d, c)
    \/ upload_dir_step
    \/ upload_dir_return
    \/ \E s \in ArgPrefixes, d \in ArgPrefixes, c \in BOOLEAN :
            move_files(s, d, c)
    \/ move_files_skip
    \/ move_files_copy
    \/ move_files_delete
    \/ move_files_return
    \/ \E d \in ArgLocalDirs : clear_dir(d)
    \/ clear_dir_local_step
    \/ clear_dir_local_return

Spec == Init /\ [][Next]_vars

\* the caller goes on to its next call
next_call ==
    /\ pc \in {"done", "failed"}
    /\ prev' = [op |-> call.op, src |-> call.src, dest |-> call.dest,
                clear |-> call.clear, pc |-> pc, nops |-> Len(ops)]
    /\ pc' = "idle"
    /\ UNCHANGED <<bucket, localfs, call, listing, idx, pending, log, ops, err,
                   startBucket, listBucket, startLocal, file_name, ctResult>>

InitClear ==
    /\ bucket \in InitBuckets
    /\ localfs = DefaultLocal
    /\ InitCall
    /\ file_name = <<>>
    /\ ctResult = "unset"

\* a session of Bucket.clear_dir calls, one after the other
NextClear ==
    \/ \E d \in ArgPrefixes : Bucket_clear_dir(d)
    \/ clear_dir_step
    \/ clear_dir_return
    \/ next_call

SpecClear == InitClear /\ [][NextClear]_vars

InitResolve ==
    /\ bucket \in {[k \in {} |-> 0]}
    /\ localfs = DefaultLocal
    /\ InitCall
    /\ file_name \in FileNames
    /\ ctResult = "unset"

resolve ==
    /\ ctResult = "unset"
    /\ ctResult' = content_type(file_name)
    /\ UNCHANGED <<bucket, localfs, pc, call, listing, idx, pending, log, ops,
                   err, startBucket, listBucket, startLocal, prev, file_name>>

NextResolve == resolve

SpecResolve == InitResolve /\ [][NextResolve]_vars

---------------------------------------------------------------------------
(* Vocabulary of the claims, written apart from the model's operators.     *)

\* the final path segment of a key or path
RECURSIVE FinalSegment(_)
FinalSegment(s) ==
    IF s = <<>> \/ s[Len(s)] = "/" THEN <<>>
    ELSE Append(FinalSegment(SubSeq(s, 1, Len(s) - 1)), s[Len(s)])

\* a prefix with its leading and trailing slashes removed
RECURSIVE Normalized(_)
Normalized(s) ==
    IF s = <<>> THEN s
    ELSE IF Head(s) = "/" THEN Normalized(Tail(s))
    ELSE IF s[Len(s)] = "/" THEN Normalized(SubSeq(s, 1, Len(s) - 1))
    ELSE s

SrcDir == Normalized(call.src)

DestDir == Normalized(call.dest)

\* the directory marker of d: the key that is d once its slashes are removed
IsMarker(k, d) == Normalized(k) = d

\* k is an object under d/, the marker of d aside
Under(k, d) == StartsWith(k, d \o <<"/">>) /\ ~IsMarker(k, d)

\* k is an object of the directory d: d itself or a key beginning with d/
InDir(k, d) == k = d \/ StartsWith(k, d \o <<"/">>)

DestOf(k) == DestDir \o <<"/">> \o FinalSegment(k)

\* neither normalized prefix is a leading substring of the other
PrefixesApart == ~StartsWith(SrcDir, DestDir) /\ ~StartsWith(DestDir, SrcDir)

\* the call is move_files and listing is the listing of its own loop
InMoveLoop ==
    /\ call.op = "move_files"
    /\ \/ pc \in {"moving", "move_delete", "done"}
       \/ pc = "failed" /\ ops[Len(ops)].by = "move_files"

MoveDone == pc = "done" /\ call.op = "move_files"

\* The runs on which the claims about move_files are refuted as stated: no
\* object was copied onto itself (S3 rejects such a copy_from when the
\* metadata is unchanged, other stores accept it; the model allows both), and
\* every listed key lies in the source directory (the listing took nothing
\* from a sibling directory, see C10)
PlainRun ==
    /\ \A n \in 1..Len(ops) : ops[n].kind = "copy" => ops[n].key # ops[n].src
    /\ InMoveLoop => \A j \in 1..Len(listing) : InDir(listing[j], SrcDir)

---------------------------------------------------------------------------
(* C1: move_files(src, dest) without clearing, run to completion: every    *)
(* object initially under src/ has an object with its basename at          *)
(* dest/basename, and no object remains under src/.                        *)

C1_MovedAll ==
    /\ \A k \in DOMAIN startBucket :
            Under(k, SrcDir) => DestOf(k) \in DOMAIN bucket
    /\ \A k \in DOMAIN bucket : ~Under(k, SrcDir)

\* C1 as stated, for every pair of prefixes
C1_Original == (MoveDone /\ ~call.clear /\ PlainRun) => C1_MovedAll

\* C1 amended: the same, when neither normalized prefix is a leading
\* substring of the other (the marker of src is skipped and stays)
C1_Amended == (MoveDone /\ ~call.clear /\ PrefixesApart) => C1_MovedAll

C1_Witness ==
    /\ MoveDone
    /\ ~call.clear
    /\ PrefixesApart
    /\ Cardinality({k \in DOMAIN startBucket : Under(k, SrcDir)}) >= 2
    /\ \E k \in DOMAIN startBucket : IsMarker(k, SrcDir)

---------------------------------------------------------------------------
(* C3: when a copy or delete fails at the i-th listed object of            *)
(* move_files, nothing more is issued: every object processed before the   *)
(* i-th is at its destination key and no longer at its source key, every   *)
(* object after the i-th is at its source key unchanged and no request     *)
(* was made for it.                                                        *)

MoveFailed ==
    /\ pc = "failed"
    /\ call.op = "move_files"
    /\ ops[Len(ops)].by = "move_files"

C3_PartiallyApplied ==
    /\ ~ops[Len(ops)].ok
    /\ ops[Len(ops)].src = listing[idx]
    /\ \A n \in 1..(Len(ops) - 1) : ops[n].ok
    /\ \A j \in 1..(idx - 1) :
            ~IsMarker(listing[j], SrcDir) =>
                /\ DestOf(listing[j]) \in DOMAIN bucket
                /\ listing[j] \notin DOMAIN bucket
    /\ \A j \in (idx + 1)..Len(listing) :
            /\ listing[j] \in DOMAIN bucket
            /\ bucket[listing[j]] = listBucket[listing[j]]
            /\ \A n \in 1..Len(ops) :
                    ops[n].by = "move_files" => ops[n].src # listing[j]

\* C3 as stated, for every pair of prefixes
C3_Original == (MoveFailed /\ PlainRun) => C3_PartiallyApplied

\* C3 amended: the same, when neither normalized prefix is a leading
\* substring of the other
C3_Amended == (MoveFailed /\ PrefixesApart) => C3_PartiallyApplied

C3_Witness ==
    /\ MoveFailed
    /\ PrefixesApart
    /\ idx > 1
    /\ idx < Len(listing)
    /\ ~IsMarker(listing[1], SrcDir)

---------------------------------------------------------------------------
(* C9: move_files never loses data: in every intermediate and final state  *)
(* each listed object's payload is at its original key or at               *)
(* dest/basename.                                                          *)

PayloadKept(k) ==
    \/ k \in DOMAIN bucket /\ bucket[k].body = listBucket[k].body
    \/ /\ DestOf(k) \in DOMAIN bucket
       /\ bucket[DestOf(k)].body = listBucket[k].body

C9_AllKept == \A j \in 1..Len(listing) : PayloadKept(listing[j])

\* the listed objects that are moved have pairwise distinct basenames
DistinctBasenames ==
    \A i, j \in 1..Len(listing) :
        (/\ i # j
         /\ ~IsMarker(listing[i], SrcDir)
         /\ ~IsMarker(listing[j], SrcDir))
            => FinalSegment(listing[i]) # FinalSegment(listing[j])

\* C9 as stated, for every pair of prefixes and every set of keys
C9_Original == (InMoveLoop /\ PlainRun) => C9_AllKept

\* C9 amended: the same, when neither normalized prefix is a leading
\* substring of the other and the moved objects have distinct basenames
C9_Amended == (InMoveLoop /\ PrefixesApart /\ DistinctBasenames) => C9_AllKept

\* a failed delete has left an object at both locations, after another
\* object was moved
C9_Witness ==
    /\ MoveFailed
    /\ PrefixesApart
    /\ DistinctBasenames
    /\ idx > 1
    /\ ops[Len(ops)].kind = "delete"
    /\ listing[idx] \in DOMAIN bucket
    /\ DestOf(listing[idx]) \in DOMAIN bucket

---------------------------------------------------------------------------
(* Vocabulary of the claims about local directories.                       *)

\* a directory path without its trailing slash
DirOf(d) == IF d # <<>> /\ d[Len(d)] = "/" THEN SubSeq(d, 1, Len(d) - 1) ELSE d

\* p is an immediate entry of the directory d
EntryOf(p, d) ==
    /\ FinalSegment(p) # <<>>
    /\ p = DirOf(d) \o <<"/">> \o FinalSegment(p)

Dotted(p) == FinalSegment(p) # <<>> /\ Head(FinalSegment(p)) = "."

FilesOf(fs, d) == {p \in DOMAIN fs : EntryOf(p, d) /\ fs[p].kind = "file"}

SubdirsOf(fs, d) == {p \in DOMAIN fs : EntryOf(p, d) /\ fs[p].kind = "dir"}

\* the keys the call has put
Uploaded == {ops[n].key : n \in {m \in 1..Len(ops) : ops[m].kind = "put" /\ ops[m].ok}}

UnderDest == {k \in DOMAIN bucket : StartsWith(k, DestDir \o <<"/">>)}

---------------------------------------------------------------------------
(* C2: upload_dir(localDir, prefix, clear_dest_dir = True), run to         *)
(* completion on a bucket that holds keys under prefix/: the objects       *)
(* under prefix/ are exactly prefix/basename for the files of localDir.    *)

UploadCleared ==
    /\ pc = "done"
    /\ call.op = "upload_dir"
    /\ call.clear
    /\ \E k \in DOMAIN startBucket : StartsWith(k, DestDir \o <<"/">>)

\* C2 as stated: every file of localDir
C2_Original ==
    UploadCleared => UnderDest = {DestOf(p) : p \in FilesOf(startLocal, call.src)}

\* C2 amended: every file of localDir whose name does not begin with a dot
C2_Amended ==
    UploadCleared =>
        UnderDest = {DestOf(p) : p \in {q \in FilesOf(startLocal, call.src) : ~Dotted(q)}}

C2_Witness ==
    /\ UploadCleared
    /\ \E k \in DOMAIN startBucket :
            StartsWith(k, DestDir \o <<"/">>) /\ k \notin DOMAIN bucket
    /\ \E p \in FilesOf(startLocal, call.src) : Dotted(p)
    /\ \E p \in FilesOf(startLocal, call.src) : DestOf(p) \in DOMAIN bucket

---------------------------------------------------------------------------
(* C5: upload_dir uploads exactly the regular files among the immediate    *)
(* entries of localDir, each to destPrefix/baseName; a subdirectory is     *)
(* skipped silently: no upload, no error, the other files are uploaded.    *)

\* the call is upload_dir and has ended without a failure of the store
UploadEnded ==
    /\ call.op = "upload_dir"
    /\ pc \in {"done", "failed"}
    /\ err # "ClientError"

\* C5 as stated, refuted on directories that hold no dot file
C5_Original ==
    (UploadEnded /\ \A p \in DOMAIN startLocal : ~Dotted(p)) =>
        /\ pc = "done"
        /\ Uploaded = {DestOf(p) : p \in FilesOf(startLocal, call.src)}

\* C5 amended: upload_file is called on every immediate entry whose name
\* does not begin with a dot; a regular file is uploaded, a subdirectory
\* makes the call fail with the error of open(), so the call completes only
\* when there is none, and has then uploaded exactly those files
C5_Amended ==
    UploadEnded =>
        LET plain == {p \in FilesOf(startLocal, call.src) : ~Dotted(p)}
            dirs  == {p \in SubdirsOf(startLocal, call.src) : ~Dotted(p)}
        IN  /\ pc = "done" <=> dirs = {}
            /\ pc = "failed" => err = "IsADirectoryError"
            /\ Uploaded \subseteq {DestOf(p) : p \in plain}
            /\ pc = "done" => Uploaded = {DestOf(p) : p \in plain}

\* a file was uploaded, then the subdirectory ended the call
C5_Witness ==
    /\ UploadEnded
    /\ pc = "failed"
    /\ err = "IsADirectoryError"
    /\ Uploaded # {}
    /\ pending # {}

---------------------------------------------------------------------------
(* C6: every put, copy and delete of a Bucket operation prints exactly one *)
(* line naming the path or key, and the lines printed name only completed  *)
(* work: the printed trail is the sequence of mutations applied.           *)

BucketOps == {"upload_file", "clear_dir", "upload_dir", "move_files"}

Verb(r) == CASE r.kind = "put" -> "uploaded"
             [] r.kind = "copy" -> "copying"
             [] r.kind = "delete" -> "deleting"

Trail(rs) == [i \in 1..Len(rs) |-> <<Verb(rs[i]), rs[i].src>>]

Printed == [i \in 1..Len(log) |-> <<log[i][1], log[i][2]>>]

Applied(r) == r.ok

\* the requests that print a line: a put that succeeded, a delete of
\* clear_dir and a copy of move_files whether or not they succeed
Announced(r) ==
    \/ r.kind = "put" /\ r.ok
    \/ r.kind = "delete" /\ r.by = "clear_dir"
    \/ r.kind = "copy"

\* C6 as stated
C6_Original ==
    (call.op \in BucketOps /\ pc \in {"done", "failed"}) =>
        Printed = Trail(SelectSeq(ops, Applied))

\* C6 amended: upload_file prints after its put succeeded; clear_dir prints
\* before each delete and move_files before each copy, so the line is there
\* when the request fails; move_files prints nothing for its deletes
C6_Amended ==
    (call.op \in BucketOps /\ pc # "idle") =>
        Printed = Trail(SelectSeq(ops, Announced))

\* move_files has completed: two requests for every line
C6_Witness ==
    /\ MoveDone
    /\ Len(log) >= 2
    /\ Len(ops) > Len(log)
    /\ \E n \in 1..Len(ops) : ops[n].by = "clear_dir"

---------------------------------------------------------------------------
(* C7: the local clear_dir never deletes a directory or an entry whose     *)
(* name begins with a dot, and deletes every other immediate regular       *)
(* file; nothing below a subdirectory is touched.                          *)

C7_LocalClear ==
    call.op = "clear_dir_local" =>
        /\ DOMAIN localfs \subseteq DOMAIN startLocal
        /\ \A p \in DOMAIN startLocal :
                (\/ startLocal[p].kind = "dir"
                 \/ Dotted(p)
                 \/ ~EntryOf(p, call.src))
                    => p \in DOMAIN localfs /\ localfs[p] = startLocal[p]
        /\ pc = "done" =>
                \A p \in FilesOf(startLocal, call.src) :
                    ~Dotted(p) => p \notin DOMAIN localfs

C7_Witness ==
    /\ call.op = "clear_dir_local"
    /\ pc = "done"
    /\ \E p \in FilesOf(startLocal, call.src) : p \notin DOMAIN localfs
    /\ \E p \in FilesOf(startLocal, call.src) : Dotted(p)
    /\ \E p \in SubdirsOf(startLocal, call.src) :
            \E q \in DOMAIN localfs : EntryOf(q, p)

---------------------------------------------------------------------------
(* C4: Bucket.clear_dir is idempotent: on a bucket with no key beginning   *)
(* with the normalized prefix it issues no delete, prints nothing and      *)
(* leaves the bucket as it is; called twice in succession it leaves what   *)
(* one call leaves.                                                        *)

InClear == call.op = "clear_dir" /\ pc \in {"clearing", "done", "failed"}

NoOp == ops = <<>> /\ log = <<>> /\ bucket = startBucket /\ pc # "failed"

SecondClear ==
    /\ InClear
    /\ prev.op = "clear_dir"
    /\ prev.pc = "done"
    /\ Normalized(prev.dest) = DestDir

\* C4: a clear_dir that finds no key under its prefix, and a clear_dir that
\* directly follows a completed clear_dir of the same prefix, are no-ops
C4_Idempotent ==
    /\ (InClear /\ \A k \in DOMAIN startBucket : ~StartsWith(k, DestDir)) => NoOp
    /\ SecondClear => NoOp

\* the second of two calls has returned; the first had deleted objects
C4_Witness ==
    /\ SecondClear
    /\ pc = "done"
    /\ prev.nops > 0
    /\ DOMAIN bucket # {}

---------------------------------------------------------------------------
(* C10: Bucket.clear_dir(d) affects only the objects of the directory d,   *)
(* the keys equal to d or beginning with d/; every other object is left    *)
(* as it was, a sibling directory whose name begins with d included.       *)

C10_Frame ==
    InClear =>
        \A k \in DOMAIN startBucket :
            ~InDir(k, DestDir) => k \in DOMAIN bucket /\ bucket[k] = startBucket[k]

---------------------------------------------------------------------------
(* C8: content_type agrees with the reference: the substring after the     *)
(* last dot of the final path segment, looked up case-sensitively, with    *)
(* application/octet-stream when the extension is absent, empty or         *)
(* unmapped, as for a name whose only dot is the leading one.              *)

HasDot(s) == \E i \in 1..Len(s) : s[i] = "."

RECURSIVE AfterLastDot(_)
AfterLastDot(s) ==
    IF s = <<>> \/ s[Len(s)] = "." THEN <<>>
    ELSE Append(AfterLastDot(SubSeq(s, 1, Len(s) - 1)), s[Len(s)])

\* what precedes the last dot of s
BeforeLastDot(s) == SubSeq(s, 1, Len(s) - Len(AfterLastDot(s)) - 1)

Fallback == "application/octet-stream"

MimeOf(ext) ==
    CASE ext = <<"h", "t", "m", "l">> -> "text/html"
      [] ext = <<"c", "s", "v">> -> "text/csv"
      [] ext = <<"t", "x", "t">> -> "text/plain"
      [] ext = <<"x", "l", "s", "x">> ->
            "application/vnd.openxmlformats-officedocument.spreadsheetml.sheet"
      [] ext = <<"p", "k", "l">> -> "application/octet-stream"
      [] OTHER -> Fallback

OnlyLeadingDot(s) == HasDot(s) /\ BeforeLastDot(s) = <<>>

\* the reference of the claim
RefType(fn) ==
    LET seg == FinalSegment(fn)
    IN  IF ~HasDot(seg) \/ OnlyLeadingDot(seg) THEN Fallback
        ELSE MimeOf(AfterLastDot(seg))

\* the reference amended: the last dot counts only when a character other
\* than a dot precedes it in the segment
RefTypeAmended(fn) ==
    LET seg == FinalSegment(fn)
    IN  IF ~HasDot(seg) \/ \A i \in 1..Len(BeforeLastDot(seg)) : seg[i] = "."
        THEN Fallback
        ELSE MimeOf(AfterLastDot(seg))

\* C8 as stated
C8_Original == ctResult # "unset" => ctResult = RefType(file_name)

\* C8 amended: a segment that begins with several dots and has no other
\* dot has no extension either
C8_Amended == ctResult # "unset" => ctResult = RefTypeAmended(file_name)

C8_Witness ==
    /\ ctResult = Fallback
    /\ file_name = <<".", ".", "c", "s", "v">>

====
